---- MODULE Spec2Model ----
(***************************************************************************)
(* A model of the media-session pipeline of Lumina Capture: the recorder   *)
(* of the desktop build (useRecorder + useElectronIPC + tray and global    *)
(* shortcuts), the recorder of the browser build (App.tsx), the device     *)
(* stream hook (useMediaStream), the frame compositor (useCompositor) and  *)
(* the source picker of the main process (setDisplayMediaRequestHandler).  *)
(*                                                                         *)
(* One action is one task of the single-threaded event loop: a handler is  *)
(* run to completion, React commits the state it set, and the effects      *)
(* whose dependencies changed run.  Callbacks keep the values they         *)
(* captured when they were created (closures), refs are read live.         *)
(***************************************************************************)
EXTENDS Integers, Sequences, FiniteSets, TLC

\* ------------------------------------------------------------------ bounds
MaxSteps == 7         \* tasks of the event loop one recorder behaviour covers
MaxStreamSteps == 5   \* tasks one behaviour of the stream hook covers
MaxCompSteps == 8     \* tasks one behaviour of the compositor covers
MaxPickSteps == 6     \* tasks one behaviour of the source picker covers
MaxSources == 2       \* screens and windows desktopCapturer enumerates
MaxDevSteps == 3      \* tasks one behaviour of the device list covers
MaxDevices == 3       \* media devices the platform enumerates

\* ------------------------------------------------------- program constants
SegmentSeconds == 1200    \* continuous mode: a segment is split after 20 minutes

VARIABLES
    \* --- the recording session and its boundary
    build,             \* "desktop" (useRecorder) or "browser" (App.tsx)
    stream,            \* the stream to record: 0 (null) or a stream id
    streamCount,       \* streams acquired so far
    liveStreams,       \* ids of the streams whose tracks are live (stream.active)
    isRecording, isPaused, recordingTime, isContinuous,     \* React state
    recorders,         \* every MediaRecorder constructed so far, by id
    mediaRecorderRef,  \* id of the recorder in the ref, 0 when null
    chunksRef,         \* the chunk buffer in the ref
    timers,            \* ids of the intervals that are still scheduled
    timerRef,          \* id of the interval in the ref, 0 when unset
    timerStart,        \* browser: the startTime the scheduled interval captured
    isLoopingRef,      \* browser: the segment-split flag
    startTimeRef,      \* browser: Date.now() at handleStartRecording
    startClosure,      \* desktop: what the memoised startRecording captured
    listeners,         \* desktop: closures registered on the four IPC channels
    trayState,         \* desktop: <<isRecording, isPaused>> the tray menu shows
    trayQueue,         \* desktop: update-tray-state messages not yet handled
    saving,            \* desktop: finalized blobs whose saveRecording is pending
    saved,             \* the RecordedMedia records created
    now,               \* wall clock, seconds
    steps,             \* tasks run so far
    \* --- the device stream hook (useMediaStream)
    mode,              \* the capture mode the hook is called with
    constraints,       \* the constraints the hook is called with
    isActive,          \* the hook's third argument; FALSE on desktop: unmounted
    tracks,            \* every MediaStreamTrack the platform handed out, by id
    streams,           \* every MediaStream object, by id
    curStream,         \* the hook's state `stream`: 0 (null) or a stream id
    streamRef,         \* streamRef.current
    calls,             \* the startStream invocations awaiting the platform
    callCount,         \* startStream invocations that reached the platform
    permissionGranted, \* the hook's state permissionGranted
    error,             \* the hook's state error is not null
    \* --- the frame compositor (useCompositor) in the Studio
    sources,           \* the source streams handed to the Studio, by id
    mainStream,        \* the hook's argument mainStream: 0 (null) or a source id
    pipStream,         \* the hook's argument pipStream: 0 (null) or a source id
    screenMode,        \* the hook's argument isActive: mode === 'screen'
    effectDeps,        \* <<mainStream, pipStream, isActive>> of the last effect run
    ctx,               \* the last effect run got a 2D context for its canvas
    requestRef,        \* requestRef.current: an animation frame id, 0 when unset
    pendingFrames,     \* the animation frame requests scheduled and not cancelled
    rafCount,          \* animation frame requests made so far
    canvasCount,       \* canvases created so far
    compositedStream,  \* the hook's state compositedStream
    pipCalls,          \* the getPip calls awaiting the platform: their flag `active`
    \* --- the source picker of the main process
    requests,          \* the display-capture requests handled so far
    \* --- the device list of the stream hook
    devices,           \* the hook's state devices: what enumerateDevices gave last
    videoDeviceId,     \* constraints.videoDeviceId of the Studio: 0 (undefined) or an id
    enumerations       \* calls of enumerateDevices so far

recVars == <<build, stream, streamCount, liveStreams, isRecording, isPaused,
             recordingTime, isContinuous, recorders, mediaRecorderRef, chunksRef,
             timers, timerRef, timerStart, isLoopingRef, startTimeRef, startClosure,
             listeners, trayState, trayQueue, saving, saved, now, steps>>

streamVars == <<mode, constraints, isActive, tracks, streams, curStream, streamRef,
                calls, callCount, permissionGranted, error>>

compVars == <<sources, mainStream, pipStream, screenMode, effectDeps, ctx, requestRef,
              pendingFrames, rafCount, canvasCount, compositedStream, pipCalls>>

pickVars == <<requests>>

devVars == <<devices, videoDeviceId, enumerations>>

vars == <<recVars, streamVars, compVars, pickVars, devVars>>

\* ------------------------------------------------- desktop: useRecorder

\* The state and the refs of the component as one value, so that a handler is a
\* function of it; threw marks an exception that left the running handler.
Hook ==
    [isRecording |-> isRecording, isPaused |-> isPaused, recordingTime |-> recordingTime,
     recorders |-> recorders, mediaRecorderRef |-> mediaRecorderRef,
     chunksRef |-> chunksRef, timers |-> timers, timerRef |-> timerRef,
     timerStart |-> timerStart, isLoopingRef |-> isLoopingRef,
     startTimeRef |-> startTimeRef, saved |-> saved, threw |-> FALSE]

\* new MediaRecorder(stream, options) and recorder.start(): duration is the
\* recordingTime the onstop closure captured.  The other time fields only
\* measure: startedAt, stoppedAt and pausedFor the wall clock of the segment
\* being encoded, sessionStart that of the session, and continuous whether
\* continuous mode has been on for the whole session.
NewRecorder(s, captured) ==
    [state |-> "recording", stream |-> s, duration |-> captured,
     stopPending |-> FALSE, emitted |-> 0, errored |-> FALSE, finalized |-> FALSE,
     startedAt |-> now, stoppedAt |-> now, pausedFor |-> 0,
     sessionStart |-> now, continuous |-> isContinuous]

\* A startRecording without a look at the stream it was given.
startRecordingUnchecked(h, c, fails) ==
    LET id == Len(h.recorders) + 1 IN
    [h EXCEPT !.recorders = Append(@, NewRecorder(c.stream, c.recordingTime)),
              !.mediaRecorderRef = id,
              !.isRecording = TRUE,
              !.isPaused = FALSE,
              !.recordingTime = 0,
              !.timers = @ \cup {id},
              !.timerRef = id]

\* A startRecording that sets the session state before it makes the encoder.
startRecordingStateFirst(h, c, fails) ==
    IF c.stream = 0 THEN h
    ELSE LET id == Len(h.recorders) + 1
             h1 == [h EXCEPT !.isRecording = TRUE, !.isPaused = FALSE, !.recordingTime = 0]
         IN IF fails \/ c.stream \notin liveStreams THEN [h1 EXCEPT !.threw = TRUE]
            ELSE [h1 EXCEPT !.recorders = Append(@, NewRecorder(c.stream, c.recordingTime)),
                            !.mediaRecorderRef = id,
                            !.timers = @ \cup {id},
                            !.timerRef = id]

\* new MediaRecorder throws when the platform cannot make the encoder (fails),
\* recorder.start throws on a stream without live tracks; nothing after either
\* runs.
startRecording(h, c, fails) ==
    IF c.stream = 0 THEN h
    ELSE IF fails \/ c.stream \notin liveStreams THEN [h EXCEPT !.threw = TRUE]
    ELSE LET id == Len(h.recorders) + 1 IN
         [h EXCEPT !.recorders = Append(@, NewRecorder(c.stream, c.recordingTime)),
                   !.mediaRecorderRef = id,
                   !.isRecording = TRUE,
                   !.isPaused = FALSE,
                   !.recordingTime = 0,
                   !.timers = @ \cup {id},
                   !.timerRef = id]

\* recorder.stop() at time t: the encoder becomes inactive at once, its stop
\* event follows.
StopEncoder(rec, t) ==
    IF rec.state = "inactive" THEN rec
    ELSE [rec EXCEPT !.state = "inactive", !.stopPending = TRUE, !.stoppedAt = t]

\* A stopRecording that also resets the elapsed counter.
stopRecordingResetsTime(h) ==
    LET r == h.mediaRecorderRef
        h1 == IF r # 0 /\ h.recorders[r].state # "inactive"
              THEN [h EXCEPT !.recorders[r] = StopEncoder(@, now)]
              ELSE h
    IN [h1 EXCEPT !.timers = @ \ {h.timerRef},
                  !.isRecording = FALSE,
                  !.isPaused = FALSE,
                  !.recordingTime = 0]

stopRecording(h) ==
    LET r == h.mediaRecorderRef
        h1 == IF r # 0 /\ h.recorders[r].state # "inactive"
              THEN [h EXCEPT !.recorders[r] = StopEncoder(@, now)]
              ELSE h
    IN [h1 EXCEPT !.timers = @ \ {h.timerRef},
                  !.isRecording = FALSE,
                  !.isPaused = FALSE]

pauseRecording(h) ==
    LET r == h.mediaRecorderRef IN
    IF r # 0 /\ h.recorders[r].state = "recording"
    THEN [h EXCEPT !.recorders[r].state = "paused", !.isPaused = TRUE]
    ELSE IF r # 0 /\ h.recorders[r].state = "paused"
    THEN [h EXCEPT !.recorders[r].state = "recording", !.isPaused = FALSE]
    ELSE h

\* toggleRecording reads the isRecording of the render that created it.
toggleRecording(h, c, fails) ==
    IF c.isRecording THEN stopRecording(h) ELSE startRecording(h, c, fails)

\* The callbacks of the current render, as the buttons of the Studio use them.
CurrentClosure ==
    [isRecording |-> isRecording, stream |-> startClosure.stream,
     recordingTime |-> startClosure.recordingTime]

\* handleStartRecording of the Studio: the shutter button while not recording.
handleStartRecording(h, fails) ==
    IF stream = 0 THEN h
    ELSE IF stream \notin liveStreams THEN h
    ELSE startRecording(h, CurrentClosure, fails)

\* One listener of a channel, called with the closure it was registered with.
Invoke(h, channel, c, fails) ==
    CASE channel = "start" -> startRecording(h, c, fails)
      [] channel = "stop" -> stopRecording(h)
      [] channel = "pause" -> pauseRecording(h)
      [] channel = "toggle" -> toggleRecording(h, c, fails)

\* ipcRenderer emits a message to every listener registered on the channel,
\* in registration order; a listener that throws ends the emit.
RECURSIVE Emit(_, _, _, _)
Emit(h, channel, i, fails) ==
    IF i > Len(listeners) \/ h.threw THEN h
    ELSE Emit(Invoke(h, channel, listeners[i], fails), channel, i + 1, fails)

Dispatch(channel, fails) == Emit(Hook, channel, 1, fails)

\* The render after a task: startRecording is re-created when the stream
\* changed, toggleRecording when isRecording or startRecording changed, and the
\* useElectronIPC effect then registers the four callbacks once more.
NextStartClosure(h, s) ==
    IF s # startClosure.stream
    THEN [stream |-> s, recordingTime |-> h.recordingTime]
    ELSE startClosure

RegisterListeners(h, s) ==
    LET sc == NextStartClosure(h, s) IN
    IF h.isRecording # isRecording \/ sc # startClosure
    THEN Append(listeners, [isRecording |-> h.isRecording, stream |-> sc.stream,
                            recordingTime |-> sc.recordingTime])
    ELSE listeners

\* A tray sync effect that follows isRecording alone.
SyncTrayRecordingOnly(h) ==
    LET msg == <<h.isRecording, h.isPaused>>
        last == IF trayQueue = <<>> THEN trayState ELSE trayQueue[Len(trayQueue)]
    IN IF h.isRecording # isRecording /\ msg # last
       THEN Append(trayQueue, msg)
       ELSE trayQueue

\* The tray sync effect: updateTrayState is invoked when isRecording, isPaused
\* or recordingTime changed.  A message equal to the one before it rebuilds the
\* same menu, so it is not queued a second time.
SyncTray(h) ==
    LET msg == <<h.isRecording, h.isPaused>>
        last == IF trayQueue = <<>> THEN trayState ELSE trayQueue[Len(trayQueue)]
    IN IF <<h.isRecording, h.isPaused, h.recordingTime>>
              # <<isRecording, isPaused, recordingTime>> /\ msg # last
       THEN Append(trayQueue, msg)
       ELSE trayQueue

\* Commit the component state h with the stream s after a task.
Commit(h, s) ==
    /\ isRecording' = h.isRecording
    /\ isPaused' = h.isPaused
    /\ recordingTime' = h.recordingTime
    /\ recorders' = h.recorders
    /\ mediaRecorderRef' = h.mediaRecorderRef
    /\ chunksRef' = h.chunksRef
    /\ timers' = h.timers
    /\ timerRef' = h.timerRef
    /\ timerStart' = h.timerStart
    /\ isLoopingRef' = h.isLoopingRef
    /\ startTimeRef' = h.startTimeRef
    /\ saved' = h.saved
    /\ stream' = s
    /\ IF build = "desktop"
       THEN /\ startClosure' = NextStartClosure(h, s)
            /\ listeners' = RegisterListeners(h, s)
            /\ trayQueue' = SyncTray(h)
       ELSE UNCHANGED <<startClosure, listeners, trayQueue>>

\* ----------------------------------------------------- desktop: actions

\* The shutter button: stopRecording while recording, else handleStartRecording.
UiShutter(fails) ==
    /\ build = "desktop"
    /\ Commit(IF isRecording THEN stopRecording(Hook)
              ELSE handleStartRecording(Hook, fails), stream)
    /\ UNCHANGED <<build, streamCount, liveStreams, isContinuous, trayState, saving, now>>

\* The pause button is rendered only while isRecording.
UiPause ==
    /\ build = "desktop"
    /\ isRecording
    /\ Commit(pauseRecording(Hook), stream)
    /\ UNCHANGED <<build, streamCount, liveStreams, isContinuous, trayState, saving, now>>

\* The tray's record item sends stop-recording or start-recording according to
\* the state its menu was built with.
TrayChannel == IF trayState[1] THEN "stop" ELSE "start"

TrayRecord(fails) ==
    /\ build = "desktop"
    /\ Commit(Dispatch(TrayChannel, fails), stream)
    /\ UNCHANGED <<build, streamCount, liveStreams, isContinuous, trayState, saving, now>>

\* The tray's pause item is enabled while the tray shows a recording.
TrayPause ==
    /\ build = "desktop"
    /\ trayState[1]
    /\ Commit(Dispatch("pause", FALSE), stream)
    /\ UNCHANGED <<build, streamCount, liveStreams, isContinuous, trayState, saving, now>>

\* The global shortcuts: Ctrl+Shift+R toggles, Ctrl+Shift+P pauses.
Shortcut(channel, fails) ==
    /\ build = "desktop"
    /\ Commit(Dispatch(channel, fails), stream)
    /\ UNCHANGED <<build, streamCount, liveStreams, isContinuous, trayState, saving, now>>

\* The main process handles one update-tray-state message: updateTrayMenu.
TrayDeliver ==
    /\ trayQueue # <<>>
    /\ trayState' = Head(trayQueue)
    /\ trayQueue' = Tail(trayQueue)
    /\ UNCHANGED <<build, stream, streamCount, liveStreams, isRecording, isPaused,
                   recordingTime, isContinuous, recorders, mediaRecorderRef, chunksRef,
                   timers, timerRef, timerStart, isLoopingRef, startTimeRef,
                   startClosure, listeners, saving, saved, now>>

\* The interval callback of useRecorder reads the recorder in the ref.
TimerCallback(h) ==
    IF h.mediaRecorderRef = 0 \/ h.recorders[h.mediaRecorderRef].state = "paused"
    THEN h
    ELSE [h EXCEPT !.recordingTime = @ + 1]

\* n runs of the callback in a row: a run changes neither the ref nor the
\* encoder, so all n of them take the branch the first one takes.
RunTimers(h, n) ==
    IF TimerCallback(h) = h THEN h ELSE [h EXCEPT !.recordingTime = @ + n]

\* A stop event is queued the moment its encoder stops; a task of the event
\* loop that is due a second later does not overtake it.
NoStopPending == \A r \in DOMAIN recorders : ~recorders[r].stopPending

\* d seconds of wall clock pass for the encoders: a paused one accumulates them.
PassSeconds(rs, d) ==
    [r \in DOMAIN rs |->
        IF rs[r].state = "paused" THEN [rs[r] EXCEPT !.pausedFor = @ + d] ELSE rs[r]]

\* d seconds pass in which only the interval callbacks run: each scheduled
\* interval fires d times.  (The continuous-mode effect of useRecorder, run when
\* recordingTime is a multiple of 1200, has an empty body.)
Tick(d) ==
    /\ build = "desktop"
    /\ NoStopPending
    /\ now' = now + d
    /\ LET h == RunTimers(Hook, d * Cardinality(timers)) IN
       Commit([h EXCEPT !.recorders = PassSeconds(@, d)], stream)
    /\ UNCHANGED <<build, streamCount, liveStreams, isContinuous, trayState, saving>>

\* ondataavailable of encoder r: a non-empty timeslice chunk is pushed.
DataAvailable(r) ==
    /\ recorders[r].state = "recording"
    /\ chunksRef' = Append(chunksRef, <<r, recorders[r].emitted + 1>>)
    /\ recorders' = [recorders EXCEPT ![r].emitted = @ + 1]
    /\ UNCHANGED <<build, stream, streamCount, liveStreams, isRecording, isPaused,
                   recordingTime, isContinuous, mediaRecorderRef, timers, timerRef,
                   timerStart, isLoopingRef, startTimeRef, startClosure, listeners,
                   trayState, trayQueue, saving, saved, now>>

\* The wall-clock seconds encoder rec spent recording its current segment.
Elapsed(rec) == rec.stoppedAt - rec.startedAt - rec.pausedFor

\* What the final dataavailable event leaves in the buffer.
Flushed(h, r, flush) ==
    IF flush THEN Append(h.chunksRef, <<r, h.recorders[r].emitted + 1>>) ELSE h.chunksRef

\* The stop event of encoder r, after the flush of what it still buffered:
\* onstop makes the blob of the chunk buffer and empties the buffer.
OnStop(r, flush) ==
    /\ build = "desktop"
    /\ recorders[r].stopPending
    /\ saving' = Append(saving, [rec |-> r, chunks |-> Flushed(Hook, r, flush),
                                 duration |-> recorders[r].duration,
                                 elapsed |-> Elapsed(recorders[r]), part |-> FALSE])
    /\ chunksRef' = <<>>
    /\ recorders' = [recorders EXCEPT ![r].stopPending = FALSE,
                                      ![r].finalized = TRUE,
                                      ![r].emitted = IF flush THEN @ + 1 ELSE @]
    /\ UNCHANGED <<build, stream, streamCount, liveStreams, isRecording, isPaused,
                   recordingTime, isContinuous, mediaRecorderRef, timers, timerRef,
                   timerStart, isLoopingRef, startTimeRef, startClosure, listeners,
                   trayState, trayQueue, saved, now>>

RemoveAt(q, i) == SubSeq(q, 1, i - 1) \o SubSeq(q, i + 1, Len(q))

\* A save whose blob stays queued after onRecordingSaved.
SaveDoneKeepsPending(i) ==
    /\ saved' = <<saving[i]>> \o saved
    /\ UNCHANGED <<build, stream, streamCount, liveStreams, isRecording, isPaused,
                   recordingTime, isContinuous, recorders, mediaRecorderRef, chunksRef,
                   timers, timerRef, timerStart, isLoopingRef, startTimeRef,
                   startClosure, listeners, trayState, trayQueue, saving, now>>

\* saveRecording resolved: the RecordedMedia is handed to onRecordingSaved.
SaveDone(i) ==
    /\ saved' = <<saving[i]>> \o saved
    /\ saving' = RemoveAt(saving, i)
    /\ UNCHANGED <<build, stream, streamCount, liveStreams, isRecording, isPaused,
                   recordingTime, isContinuous, recorders, mediaRecorderRef, chunksRef,
                   timers, timerRef, timerStart, isLoopingRef, startTimeRef,
                   startClosure, listeners, trayState, trayQueue, now>>

\* saveRecording rejected: the catch logs the error, the blob is dropped.
SaveFailed(i) ==
    /\ saving' = RemoveAt(saving, i)
    /\ UNCHANGED <<build, stream, streamCount, liveStreams, isRecording, isPaused,
                   recordingTime, isContinuous, recorders, mediaRecorderRef, chunksRef,
                   timers, timerRef, timerStart, isLoopingRef, startTimeRef,
                   startClosure, listeners, trayState, trayQueue, saved, now>>

\* The encoder r reports an error.  useRecorder sets no onerror handler; the
\* platform may stop the encoder itself (stops) or leave it as it is.
EncoderError(r, stops) ==
    /\ build = "desktop"
    /\ recorders[r].state # "inactive"
    /\ ~recorders[r].errored
    /\ recorders' = [recorders EXCEPT
          ![r] = [(IF stops THEN StopEncoder(@, now) ELSE @) EXCEPT !.errored = TRUE]]
    /\ UNCHANGED <<build, stream, streamCount, liveStreams, isRecording, isPaused,
                   recordingTime, isContinuous, mediaRecorderRef, chunksRef, timers,
                   timerRef, timerStart, isLoopingRef, startTimeRef, startClosure,
                   listeners, trayState, trayQueue, saving, saved, now>>

\* ------------------------------------------------ both builds: the stream

\* The device hook hands over a new stream (startStream resolved).
StreamAcquired(s) ==
    /\ stream \notin liveStreams
    /\ s = streamCount + 1
    /\ streamCount' = s
    /\ liveStreams' = liveStreams \cup {s}
    /\ Commit(Hook, s)
    /\ UNCHANGED <<build, isContinuous, trayState, saving, now>>

\* The tracks of the current stream end (device unplugged, share stopped), and
\* the platform stops the encoders whose tracks have all ended.  A hook that
\* listens to the video track of the stream then drops the stream; a stream
\* without such a listener (the audio mode of the desktop hook, the camera modes
\* of the browser hook) stays in the state, ended (dropped = FALSE).
StreamEnded(dropped) ==
    /\ stream # 0
    /\ stream \in liveStreams
    /\ liveStreams' = liveStreams \ {stream}
    /\ Commit([Hook EXCEPT !.recorders =
                  [r \in DOMAIN recorders |->
                      IF recorders[r].stream = stream THEN StopEncoder(recorders[r], now)
                      ELSE recorders[r]]], IF dropped THEN 0 ELSE stream)
    /\ UNCHANGED <<build, streamCount, isContinuous, trayState, saving, now>>

\* The continuous-mode switch of the settings panel, which the Studio shows
\* only while not recording and App.tsx at any time.
ToggleContinuous ==
    /\ build = "desktop" => ~isRecording
    /\ isContinuous' = ~isContinuous
    /\ recorders' = [r \in DOMAIN recorders |-> [recorders[r] EXCEPT !.continuous = FALSE]]
    /\ UNCHANGED <<build, stream, streamCount, liveStreams, isRecording, isPaused,
                   recordingTime, mediaRecorderRef, chunksRef, timers,
                   timerRef, timerStart, isLoopingRef, startTimeRef, startClosure,
                   listeners, trayState, trayQueue, saving, saved, now>>

\* ------------------------------------------------- browser: App.tsx

\* startTimer(initialTimeOffset) of App.tsx for encoder r: the interval in
\* timerRef is cleared and a new one, which captures startTime, is scheduled.
startTimer(h, r, offset) ==
    [h EXCEPT !.timers = (@ \ {h.timerRef}) \cup {r},
              !.timerRef = r,
              !.timerStart = now - offset]

\* handleStartRecording of App.tsx; fails says that the MediaRecorder
\* constructor throws, which the catch turns into setIsRecording(false).
AppHandleStartRecording(h, fails) ==
    IF stream = 0 THEN h
    ELSE IF stream \notin liveStreams THEN h
    ELSE IF fails THEN [h EXCEPT !.isRecording = FALSE]
    ELSE LET id == Len(h.recorders) + 1
             h1 == [h EXCEPT !.recorders = Append(@, NewRecorder(stream, 0)),
                             !.mediaRecorderRef = id,
                             !.chunksRef = <<>>,
                             !.isLoopingRef = FALSE,
                             !.isRecording = TRUE,
                             !.isPaused = FALSE,
                             !.startTimeRef = now]
         IN startTimer(h1, id, recordingTime)

\* handleStopRecording of App.tsx: the state is updated later, in onstop.
AppHandleStopRecording(h) ==
    LET r == h.mediaRecorderRef IN
    IF r # 0 /\ h.recorders[r].state # "inactive"
    THEN [h EXCEPT !.recorders[r] = StopEncoder(@, now)]
    ELSE h

\* The shutter button of App.tsx.
AppShutter(fails) ==
    /\ build = "browser"
    /\ Commit(IF isRecording THEN AppHandleStopRecording(Hook)
              ELSE AppHandleStartRecording(Hook, fails), stream)
    /\ UNCHANGED <<build, streamCount, liveStreams, isContinuous, trayState, saving, now>>

\* One run of the interval callback of startTimer at wall-clock time t; the
\* interval's id is the id of the encoder its closure captured.
AppTimerCallback(h, t) ==
    LET sec == t - h.timerStart
        r == h.timerRef
        h1 == [h EXCEPT !.recordingTime = sec]
    IN IF isContinuous /\ sec >= SegmentSeconds
       THEN [h1 EXCEPT !.isLoopingRef = TRUE, !.recorders[r] = StopEncoder(@, t)]
       ELSE h1

\* No run of the callback in the d seconds after now, the last one left aside,
\* does more than set recordingTime.
Skippable(d) ==
    d = 1 \/ timers = {} \/ ~isContinuous \/ now + d - timerStart <= SegmentSeconds

\* d seconds pass in which only the interval callback runs.
AppTick(d) ==
    /\ build = "browser"
    /\ NoStopPending
    /\ Skippable(d)
    /\ now' = now + d
    /\ LET h == IF timers = {} THEN Hook ELSE AppTimerCallback(Hook, now + d) IN
       Commit([h EXCEPT !.recorders = PassSeconds(@, d)], stream)
    /\ UNCHANGED <<build, streamCount, liveStreams, isContinuous, trayState, saving>>

\* The RecordedMedia that onstop of App.tsx makes of the chunk buffer.
AppRecording(h, r, chunks) ==
    [rec |-> r, chunks |-> chunks,
     duration |-> IF h.isLoopingRef THEN SegmentSeconds ELSE now - h.startTimeRef,
     elapsed |-> Elapsed(h.recorders[r]), part |-> h.isLoopingRef]

\* recorder.start(200) of the restart branch: the same encoder records again.
Restart(rec) ==
    [rec EXCEPT !.state = "recording", !.startedAt = now, !.stoppedAt = now,
                !.pausedFor = 0]

\* onstop of App.tsx for encoder r.  In the restart branch recorder.start throws
\* when the stream has no live track left, and the rest of the handler is lost.
AppOnStopHandler(h, r, flush) ==
    LET chunks == Flushed(h, r, flush)
        h1 == [h EXCEPT !.saved = <<AppRecording(h, r, chunks)>> \o @,
                        !.chunksRef = chunks,
                        !.recorders[r].stopPending = FALSE,
                        !.recorders[r].finalized = TRUE,
                        !.recorders[r].emitted = IF flush THEN @ + 1 ELSE @]
    IN IF h.isLoopingRef
       THEN LET h2 == [h1 EXCEPT !.chunksRef = <<>>, !.isLoopingRef = FALSE] IN
            IF h.recorders[r].stream \notin liveStreams THEN h2
            ELSE startTimer([h2 EXCEPT !.recorders[r] = Restart(@),
                                       !.recordingTime = 0], r, 0)
       ELSE [h1 EXCEPT !.recordingTime = 0,
                       !.timers = @ \ {h.timerRef},
                       !.isRecording = FALSE,
                       !.isPaused = FALSE]

AppOnStop(r, flush) ==
    /\ build = "browser"
    /\ recorders[r].stopPending
    /\ Commit(AppOnStopHandler(Hook, r, flush), stream)
    /\ UNCHANGED <<build, streamCount, liveStreams, isContinuous, trayState, saving, now>>

\* The encoder r reports an error: onerror calls handleStopRecording.
AppEncoderError(r) ==
    /\ build = "browser"
    /\ recorders[r].state # "inactive"
    /\ ~recorders[r].errored
    /\ Commit(AppHandleStopRecording([Hook EXCEPT !.recorders[r].errored = TRUE]), stream)
    /\ UNCHANGED <<build, streamCount, liveStreams, isContinuous, trayState, saving, now>>

\* --------------------------------------------- the device stream hook

Modes == {"video", "audio", "screen"}

\* MediaConstraints, as far as the hook's control flow depends on them: a device
\* is pinned by an exact deviceId or it is not.
Constraints == {"default", "exact"}

\* The hook's state and refs as one value.
Dsm ==
    [tracks |-> tracks, streams |-> streams, curStream |-> curStream,
     streamRef |-> streamRef, calls |-> calls, callCount |-> callCount,
     permissionGranted |-> permissionGranted, error |-> error,
     enumerations |-> enumerations]

\* getDevices: enumerateDevices is called and setDevices stores its answer.
getDevices(d) == [d EXCEPT !.enumerations = @ + 1]

\* track.stop() for every track in ids.
StopTracks(ts, ids) ==
    [t \in DOMAIN ts |-> IF t \in ids THEN [ts[t] EXCEPT !.live = FALSE] ELSE ts[t]]

\* getTracks() of stream s, 0 being null.
TracksOf(d, s) == IF s = 0 THEN {} ELSE d.streams[s].tracks

\* A stopStream that leaves the released stream in the ref.
stopStreamKeepsRef(d) ==
    IF d.streamRef # 0
    THEN [d EXCEPT !.tracks = StopTracks(@, TracksOf(d, d.streamRef)),
                   !.curStream = 0,
                   !.permissionGranted = FALSE]
    ELSE d

\* stopStream of useMediaStream.ts.
stopStream(d) ==
    IF d.streamRef # 0
    THEN [d EXCEPT !.tracks = StopTracks(@, TracksOf(d, d.streamRef)),
                   !.streamRef = 0,
                   !.curStream = 0,
                   !.permissionGranted = FALSE]
    ELSE d

\* stopStream of the browser hook, which reads the state `stream` of its render.
webStopStream(d) ==
    IF curStream # 0
    THEN [d EXCEPT !.tracks = StopTracks(@, TracksOf(d, curStream)),
                   !.curStream = 0,
                   !.permissionGranted = FALSE]
    ELSE d

\* The part of startStream before its first await; what follows the await is
\* Resolve.  m and c are the mode and constraints of the render that made it.
NewCall(d, m, c) ==
    [d EXCEPT !.calls = Append(@, [id |-> d.callCount + 1, mode |-> m, constraints |-> c,
                                   phase |-> "first", screen |-> 0]),
              !.callCount = @ + 1]

startStream(d, m, c, active) ==
    IF ~active THEN d ELSE NewCall(stopStream(d), m, c)

\* startStream of the browser hook stops the tracks of the stream in the ref
\* and leaves the ref and the state as they are.
webStartStream(d, m, c, active) ==
    IF ~active THEN d
    ELSE NewCall([d EXCEPT !.tracks = StopTracks(@, TracksOf(d, d.streamRef)),
                           !.error = FALSE], m, c)

\* An effect that calls startStream in screen mode as in the other modes.
StreamEffectAutoStart(d, oldMode, m, c, active) ==
    LET d1 == stopStream(d) IN
    IF active THEN startStream(d1, m, c, active) ELSE d1

\* The effect of useMediaStream.ts that follows mode, isActive and startStream:
\* the cleanup the run before it returned (none in screen mode), then its body.
StreamEffect(d, oldMode, m, c, active) ==
    LET d1 == IF oldMode # "screen" THEN stopStream(d) ELSE d IN
    IF m = "screen" THEN d1
    ELSE IF active THEN startStream(d1, m, c, active)
    ELSE stopStream(d1)

\* The same effect of the browser hook.
webStreamEffect(d, m, c, active) ==
    LET d1 == IF d.streamRef # 0
              THEN [d EXCEPT !.tracks = StopTracks(@, TracksOf(d, d.streamRef)),
                             !.curStream = 0,
                             !.permissionGranted = FALSE]
              ELSE d
    IN IF active /\ m # "screen" THEN webStartStream(d1, m, c, active) ELSE d1

\* The effects that run after a render with mode m, constraints c and active.
RunEffects(d, m, c, active) ==
    IF build = "desktop" THEN StreamEffect(d, mode, m, c, active)
    ELSE webStreamEffect(d, m, c, active)

\* Commit the hook state d; the browser hook's first effect copies the state
\* `stream` into the ref after every render that changed it.
DsmCommit(d) ==
    /\ tracks' = d.tracks
    /\ streams' = d.streams
    /\ curStream' = d.curStream
    /\ streamRef' = IF build = "browser" THEN d.curStream ELSE d.streamRef
    /\ calls' = d.calls
    /\ callCount' = d.callCount
    /\ permissionGranted' = d.permissionGranted
    /\ error' = d.error
    /\ enumerations' = d.enumerations

\* The tracks getUserMedia or getDisplayMedia hands out in mode m; the display
\* capture comes with or without an audio track.
KindsFor(m, withAudio) ==
    CASE m = "screen" -> IF withAudio THEN <<"display", "displayAudio">> ELSE <<"display">>
      [] m = "video" -> <<"camera", "mic">>
      [] m = "audio" -> <<"mic">>

\* The platform resolves call k with a new MediaStream of live tracks.
AddStream(d, kinds, k) ==
    LET n == Len(d.tracks) IN
    [d EXCEPT !.tracks = @ \o [i \in 1..Len(kinds) |->
                                  [kind |-> kinds[i], acq |-> k.id, live |-> TRUE]],
              !.streams = Append(@, [tracks |-> (n + 1)..(n + Len(kinds)), acq |-> k.id,
                                     mode |-> k.mode, constraints |-> k.constraints])]

VideoTracks(d, s) == {t \in TracksOf(d, s) : d.tracks[t].kind \in {"display", "camera"}}

AudioTracks(d, s) == TracksOf(d, s) \ VideoTracks(d, s)

\* A mixing that leaves the microphone capture out.
MixedTracksNoMic(d, screen, mic) ==
    VideoTracks(d, screen) \cup AudioTracks(d, screen)

\* The tracks of the stream the browser hook makes of a screen capture and a
\* microphone capture.
MixedTracks(d, screen, mic) ==
    VideoTracks(d, screen) \cup AudioTracks(d, screen) \cup AudioTracks(d, mic)

\* new MediaStream(tracks) for call k.
Combine(d, ids, k) ==
    [d EXCEPT !.streams = Append(@, [tracks |-> ids, acq |-> k.id, mode |-> k.mode,
                                     constraints |-> k.constraints])]

\* What follows the await of startStream in useMediaStream.ts when the platform
\* granted call k; the setters of an unmounted component do nothing.
Granted(d, k, withAudio) ==
    LET d1 == AddStream(d, KindsFor(k.mode, withAudio), k)
        s == Len(d1.streams)
    IN IF isActive
       THEN [d1 EXCEPT !.streamRef = s, !.curStream = s,
                       !.permissionGranted = TRUE, !.error = FALSE]
       ELSE [d1 EXCEPT !.streamRef = s]

\* The catch of startStream.
Failed(d) ==
    IF build = "desktop"
    THEN IF isActive THEN [d EXCEPT !.error = TRUE, !.permissionGranted = FALSE] ELSE d
    ELSE [d EXCEPT !.error = TRUE, !.permissionGranted = FALSE, !.curStream = 0]

\* A startStream that tries getUserMedia once more after any failure of the
\* first request.
ContinueRetriesAlways(d, i, outcome) ==
    LET k == d.calls[i]
        rest == [d EXCEPT !.calls = RemoveAt(@, i)]
    IN CASE outcome \in {"ok", "okAudio"} -> Granted(rest, k, outcome = "okAudio")
         [] k.phase = "first" -> [d EXCEPT !.calls[i].phase = "retry"]
         [] OTHER -> Failed(rest)

\* Call k of useMediaStream.ts continues after an await that ended in outcome:
\* a first getUserMedia that failed as overconstrained is tried once more.
Continue(d, i, outcome) ==
    LET k == d.calls[i]
        rest == [d EXCEPT !.calls = RemoveAt(@, i)]
    IN CASE outcome \in {"ok", "okAudio"} -> Granted(rest, k, outcome = "okAudio")
         [] outcome = "overconstrained" /\ k.phase = "first" ->
                [d EXCEPT !.calls[i].phase = "retry"]
         [] OTHER -> Failed(rest)

\* The same for the browser hook: a screen capture is followed by a microphone
\* capture whose tracks are mixed in when it succeeds.
webContinue(d, i, outcome) ==
    LET k == d.calls[i]
        rest == [d EXCEPT !.calls = RemoveAt(@, i)]
        ok == outcome \in {"ok", "okAudio"}
    IN CASE k.mode = "screen" /\ k.phase = "first" /\ ok ->
                LET d1 == AddStream(d, KindsFor("screen", outcome = "okAudio"), k) IN
                [d1 EXCEPT !.calls[i].phase = "mic", !.calls[i].screen = Len(d1.streams)]
         [] k.mode = "screen" /\ k.phase = "mic" /\ ok ->
                LET d1 == AddStream(rest, <<"mic">>, k)
                    d2 == Combine(d1, MixedTracks(d1, k.screen, Len(d1.streams)), k)
                IN [d2 EXCEPT !.curStream = Len(d2.streams), !.permissionGranted = TRUE]
         [] k.mode = "screen" /\ k.phase = "mic" /\ ~ok ->
                [rest EXCEPT !.curStream = k.screen, !.permissionGranted = TRUE]
         [] k.mode # "screen" /\ ok ->
                LET d1 == AddStream(rest, KindsFor(k.mode, FALSE), k) IN
                getDevices([d1 EXCEPT !.curStream = Len(d1.streams),
                                      !.permissionGranted = TRUE])
         [] OTHER -> Failed(rest)

\* What call k asks of getUserMedia in its current phase: the first request
\* pins the chosen devices by an exact deviceId and asks for the ideal width
\* and height, the second asks for { video: mode === 'video', audio: true }.
Request(k) ==
    [deviceId |-> k.phase = "first" /\ k.constraints = "exact",
     size |-> k.phase = "first" /\ k.mode = "video"]

\* The outcomes the platform can give call k.
Outcomes(k) ==
    {"ok", "denied"}
        \cup (IF k.mode = "screen" /\ k.phase = "first" THEN {"okAudio"} ELSE {})
        \cup (IF k.mode # "screen" /\ k.constraints = "exact" THEN {"overconstrained"} ELSE {})

\* ------------------------------------------------ stream hook: actions

\* The platform settles the await of the i-th pending call.
Resolve(i, outcome) ==
    /\ outcome \in Outcomes(calls[i])
    /\ DsmCommit(IF build = "desktop" THEN Continue(Dsm, i, outcome)
                 ELSE webContinue(Dsm, i, outcome))
    /\ UNCHANGED <<mode, constraints, isActive>>

\* A switchMode that sets the mode whatever the session does.
switchModeAlways(cur, newMode) == newMode

\* switchMode of the Studio and of App.tsx: the mode after a request for
\* newMode while the mode is cur; the handler returns while recording.
switchMode(cur, newMode) == IF isRecording THEN cur ELSE newMode

\* A mode button is clicked; a request that leaves the mode as it is causes no
\* render.
SwitchMode(m) ==
    /\ isActive
    /\ switchMode(mode, m) # mode
    /\ mode' = switchMode(mode, m)
    /\ DsmCommit(RunEffects(Dsm, mode', constraints, TRUE))
    /\ UNCHANGED <<constraints, isActive>>

\* The settings panel or the camera switch sets other constraints.
SetConstraints(c) ==
    /\ isActive
    /\ c # constraints
    /\ constraints' = c
    /\ DsmCommit(RunEffects(Dsm, mode, c, TRUE))
    /\ UNCHANGED <<mode, isActive>>

\* handleEnterStudio of App.tsx: the hook becomes active in mode m.
EnterStudio(m) ==
    /\ build = "browser"
    /\ ~isActive
    /\ mode' = m
    /\ isActive' = TRUE
    /\ DsmCommit(webStreamEffect(Dsm, m, constraints, TRUE))
    /\ UNCHANGED constraints

\* handleBackToHome: the Studio of the desktop build unmounts, which runs the
\* cleanup of its effect; the hook of App.tsx becomes inactive.
BackToHome ==
    /\ isActive
    /\ ~isRecording
    /\ isActive' = FALSE
    /\ DsmCommit(IF build = "browser" THEN webStreamEffect(Dsm, mode, constraints, FALSE)
                 ELSE IF mode # "screen" THEN stopStream(Dsm)
                 ELSE Dsm)
    /\ UNCHANGED <<mode, constraints>>

\* The stream in the state has no live track left.
Inactive(s) == s # 0 /\ \A t \in streams[s].tracks : ~tracks[t].live

\* The buttons that call startStream: "Start Screen Share" and the shutter in
\* screen mode without a stream, "Retry Access" after a failure, and the
\* shutter when the stream has ended.
CanStartStream ==
    \/ mode = "screen" /\ curStream = 0
    \/ mode # "screen" /\ ~permissionGranted /\ error
    \/ Inactive(curStream) /\ (permissionGranted \/ mode = "screen")

ClickStart ==
    /\ isActive
    /\ CanStartStream
    /\ DsmCommit(IF build = "desktop" THEN startStream(Dsm, mode, constraints, TRUE)
                 ELSE webStartStream(Dsm, mode, constraints, TRUE))
    /\ UNCHANGED <<mode, constraints, isActive>>

\* The stream of useMediaStream.ts that track t was handed out in.
StreamOf(t) == CHOOSE s \in DOMAIN streams : t \in streams[s].tracks

\* The listeners of a video track that ended: useMediaStream.ts releases the
\* stream if it is still the one in the ref; the browser hook listens to display
\* tracks only and sets the state to null.
OnEnded(d, t) ==
    IF build = "desktop"
    THEN IF d.streamRef = StreamOf(t) THEN stopStream(d) ELSE d
    ELSE IF d.tracks[t].kind = "display"
         THEN [d EXCEPT !.curStream = 0, !.permissionGranted = FALSE]
         ELSE d

\* The video track t ends: the device is unplugged or the share is stopped.
TrackEnded(t) ==
    /\ tracks[t].live
    /\ tracks[t].kind \in {"display", "camera"}
    /\ DsmCommit(OnEnded([Dsm EXCEPT !.tracks[t].live = FALSE], t))
    /\ UNCHANGED <<mode, constraints, isActive>>

\* The release operation of the hook of either build.
release(d) == IF build = "desktop" THEN stopStream(d) ELSE webStopStream(d)

\* stopStream as the browser hook returns it to its caller.
ReleaseStream ==
    /\ build = "browser"
    /\ curStream # 0
    /\ DsmCommit(webStopStream(Dsm))
    /\ UNCHANGED <<mode, constraints, isActive>>

\* The hook before the Studio is entered.
StreamIdle ==
    /\ mode = "video"
    /\ constraints = "default"
    /\ isActive = FALSE
    /\ tracks = <<>>
    /\ streams = <<>>
    /\ curStream = 0
    /\ streamRef = 0
    /\ calls = <<>>
    /\ callCount = 0
    /\ permissionGranted = FALSE
    /\ error = FALSE

\* The hook after the Studio has mounted in the mode chosen on the home page:
\* the effect of useMediaStream.ts has called startStream unless the mode is
\* screen; App.tsx starts on the home page.
StreamInit ==
    /\ mode \in (IF build = "desktop" THEN Modes ELSE {"video"})
    /\ constraints = "default"
    /\ isActive = (build = "desktop")
    /\ tracks = <<>>
    /\ streams = <<>>
    /\ curStream = 0
    /\ streamRef = 0
    /\ calls = IF build = "desktop" /\ mode # "screen"
               THEN <<[id |-> 1, mode |-> mode, constraints |-> "default",
                       phase |-> "first", screen |-> 0]>>
               ELSE <<>>
    /\ callCount = Len(calls)
    /\ permissionGranted = FALSE
    /\ error = FALSE

\* ------------------------------------------------ the frame compositor

\* compositedStream when it is null.
NoComposite == [canvas |-> 0, audio |-> {}]

\* The hook's state and refs as one value.
Comp ==
    [sources |-> sources, ctx |-> ctx, requestRef |-> requestRef,
     pendingFrames |-> pendingFrames, rafCount |-> rafCount,
     canvasCount |-> canvasCount, compositedStream |-> compositedStream]

\* A cleanup that leaves the animation frame request scheduled.
cleanupKeepsLoop(c) == c

\* The cleanup the effect returns: cancelAnimationFrame(requestRef.current);
\* the source streams are not touched.
cleanup(c) ==
    IF c.requestRef # 0 THEN [c EXCEPT !.pendingFrames = @ \ {c.requestRef}] ELSE c

\* draw(): without a context it returns at once, with one it paints the frame
\* and requests the next.
draw(c) ==
    IF ~c.ctx THEN c
    ELSE [c EXCEPT !.rafCount = @ + 1,
                   !.requestRef = c.rafCount + 1,
                   !.pendingFrames = @ \cup {c.rafCount + 1}]

\* The sources among ids that carry an audio track.
WithAudio(c, ids) == {s \in ids \ {0} : c.sources[s].audio}

\* An effect that adds no audio track to the captured canvas stream.
effectBodyNoAudio(c, main, pip, active, ok) ==
    IF ~active \/ main = 0 THEN [c EXCEPT !.compositedStream = NoComposite]
    ELSE LET c1 == draw([c EXCEPT !.canvasCount = @ + 1, !.ctx = ok]) IN
         [c1 EXCEPT !.compositedStream = [canvas |-> c1.canvasCount, audio |-> {}]]

\* An effect that leaves the composite in the state when it has nothing to
\* compose.
effectBodyKeepsComposite(c, main, pip, active, ok) ==
    IF ~active \/ main = 0 THEN c
    ELSE LET c1 == draw([c EXCEPT !.canvasCount = @ + 1, !.ctx = ok]) IN
         [c1 EXCEPT !.compositedStream =
                       [canvas |-> c1.canvasCount, audio |-> WithAudio(c, {main, pip})]]

\* The body of the effect for the arguments main, pip and active; ok is the
\* answer of canvas.getContext('2d').
effectBody(c, main, pip, active, ok) ==
    IF ~active \/ main = 0 THEN [c EXCEPT !.compositedStream = NoComposite]
    ELSE LET c1 == draw([c EXCEPT !.canvasCount = @ + 1, !.ctx = ok]) IN
         [c1 EXCEPT !.compositedStream =
                       [canvas |-> c1.canvasCount, audio |-> WithAudio(c, {main, pip})]]

\* The effect run before this one returned a cleanup.
HadCleanup == effectDeps[3] /\ effectDeps[1] # 0

\* The arguments of the hook differ from those its effect last ran with.
EffectPending == effectDeps # <<mainStream, pipStream, screenMode>>

\* A choice of the stream to record that does not look at the mode.
recordingStreamAnyMode ==
    IF compositedStream # NoComposite
    THEN [kind |-> "composite", id |-> compositedStream.canvas]
    ELSE [kind |-> "raw", id |-> mainStream]

\* recordingStream of the Studio, the stream useRecorder is given: the
\* composite of a canvas or the raw stream of the device hook (0: null).
recordingStream ==
    IF screenMode /\ compositedStream # NoComposite
    THEN [kind |-> "composite", id |-> compositedStream.canvas]
    ELSE [kind |-> "raw", id |-> mainStream]

\* recordingStream of the Studio: "composite" or the main stream.
RecordsComposite == screenMode /\ compositedStream # NoComposite

CompCommit(c) ==
    /\ sources' = c.sources
    /\ ctx' = c.ctx
    /\ requestRef' = c.requestRef
    /\ pendingFrames' = c.pendingFrames
    /\ rafCount' = c.rafCount
    /\ canvasCount' = c.canvasCount
    /\ compositedStream' = c.compositedStream

\* ---------------------------------------------------- compositor: actions

\* The effect of useCompositor runs after a render that changed its arguments:
\* the cleanup of the run before, then the body.
RunEffect(ok) ==
    /\ EffectPending
    /\ effectDeps' = <<mainStream, pipStream, screenMode>>
    /\ CompCommit(effectBody(IF HadCleanup THEN cleanup(Comp) ELSE Comp,
                             mainStream, pipStream, screenMode, ok))
    /\ UNCHANGED <<mainStream, pipStream, screenMode, pipCalls>>

\* The animation frame request id fires: draw runs again.
Frame(id) ==
    /\ id \in pendingFrames
    /\ CompCommit(draw([Comp EXCEPT !.pendingFrames = @ \ {id}]))
    /\ UNCHANGED <<mainStream, pipStream, screenMode, effectDeps, pipCalls>>

\* source.getTracks().forEach(t => t.stop()) for the sources in ids.
StopSources(c, ids) ==
    [c EXCEPT !.sources = [s \in DOMAIN c.sources |->
                              IF s \in ids THEN [c.sources[s] EXCEPT !.live = FALSE]
                              ELSE c.sources[s]]]

\* The stream hook hands the Studio a new main stream; a display capture comes
\* with or without an audio track.
MainAcquired(withAudio) ==
    /\ ~EffectPending
    /\ mainStream = 0
    /\ screenMode \/ withAudio
    /\ mainStream' = Len(sources) + 1
    /\ CompCommit([Comp EXCEPT !.sources =
                      Append(@, [live |-> TRUE, audio |-> withAudio, pip |-> FALSE])])
    /\ UNCHANGED <<pipStream, screenMode, effectDeps, pipCalls>>

\* The main stream ends and the stream hook releases it.
MainEnded ==
    /\ ~EffectPending
    /\ mainStream # 0
    /\ mainStream' = 0
    /\ CompCommit(StopSources(Comp, {mainStream}))
    /\ UNCHANGED <<pipStream, screenMode, effectDeps, pipCalls>>

\* getUserMedia of the i-th pending getPip resolves with a camera stream:
\* setPipStream is called if the run of the effect that made the call has not
\* been cleaned up, and the stream is let go of as it is otherwise.
PipGranted(i) ==
    /\ ~EffectPending
    /\ pipCalls' = RemoveAt(pipCalls, i)
    /\ pipStream' = IF pipCalls[i] THEN Len(sources) + 1 ELSE pipStream
    /\ CompCommit([Comp EXCEPT !.sources =
                      Append(@, [live |-> TRUE, audio |-> FALSE, pip |-> TRUE])])
    /\ UNCHANGED <<mainStream, screenMode, effectDeps>>

\* getUserMedia of the i-th pending getPip rejects: the catch logs a warning.
PipDenied(i) ==
    /\ ~EffectPending
    /\ pipCalls' = RemoveAt(pipCalls, i)
    /\ UNCHANGED <<sources, mainStream, pipStream, screenMode, effectDeps, ctx, requestRef,
                   pendingFrames, rafCount, canvasCount, compositedStream>>

\* The picture-in-picture effect of the Studio after a render with another
\* mode: the cleanup of the run before clears its flag `active`; the body
\* calls getPip in screen mode.
PipEffect(toScreen) ==
    LET cleaned == [i \in DOMAIN pipCalls |-> FALSE] IN
    IF toScreen THEN Append(cleaned, TRUE) ELSE cleaned

\* A request to switch to or from screen mode.  When switchMode sets the mode,
\* the stream hook releases the main stream, and on leaving screen mode the
\* picture-in-picture effect stops its camera; when it returns, nothing is
\* rendered.
CompSwitchMode ==
    /\ ~EffectPending
    /\ IF switchMode(screenMode, ~screenMode) = screenMode
       THEN UNCHANGED compVars
       ELSE /\ screenMode' = switchMode(screenMode, ~screenMode)
            /\ mainStream' = 0
            /\ pipStream' = IF screenMode THEN 0 ELSE pipStream
            /\ pipCalls' = PipEffect(~screenMode)
            /\ CompCommit(StopSources(Comp, IF screenMode THEN {mainStream, pipStream}
                                            ELSE {mainStream}))
            /\ UNCHANGED effectDeps

\* The stream recordingStream stands for can be recorded: it is not null and,
\* when it is the raw stream, its tracks are live (stream.active); the track of
\* a canvas does not end.
Recordable ==
    /\ recordingStream.id # 0
    /\ recordingStream.kind = "raw" => sources[recordingStream.id].live

\* The shutter of the Studio: stopRecording while recording, otherwise
\* handleStartRecording, which starts an encoder on recordingStream.
CompShutter ==
    /\ ~EffectPending
    /\ IF isRecording
       THEN /\ isRecording' = FALSE
            /\ recorders' = [recorders EXCEPT ![mediaRecorderRef] = StopEncoder(@, now)]
            /\ UNCHANGED mediaRecorderRef
       ELSE /\ Recordable
            /\ isRecording' = TRUE
            /\ recorders' = Append(recorders, NewRecorder(recordingStream, 0))
            /\ mediaRecorderRef' = Len(recorders) + 1
    /\ UNCHANGED compVars

\* The compositor of a Studio that has mounted in video mode.
CompInit ==
    /\ sources = <<>>
    /\ mainStream = 0
    /\ pipStream = 0
    /\ screenMode = FALSE
    /\ effectDeps = <<0, 0, FALSE>>
    /\ ctx = FALSE
    /\ requestRef = 0
    /\ pendingFrames = {}
    /\ rafCount = 0
    /\ canvasCount = 0
    /\ compositedStream = NoComposite
    /\ pipCalls = <<>>

\* ------------------------------------------------ the device list

DeviceKinds == {"videoinput", "audioinput"}

\* What enumerateDevices can resolve with: up to MaxDevices descriptors, no two
\* with the same deviceId.
DeviceLists ==
    UNION {{l \in [1..n -> [kind : DeviceKinds, deviceId : 1..MaxDevices]] :
               \A i, j \in 1..n : l[i].deviceId = l[j].deviceId => i = j} :
           n \in 0..MaxDevices}

\* devices.filter(d => d.kind === 'videoinput')
VideoDevicesOf(devs) == SelectSeq(devs, LAMBDA d : d.kind = "videoinput")

\* videoDevices.findIndex(d => d.deviceId === id), counted from 1: 0 for -1.
FindIndex(vs, id) ==
    IF \E i \in DOMAIN vs : vs[i].deviceId = id
    THEN CHOOSE i \in DOMAIN vs :
             /\ vs[i].deviceId = id
             /\ \A j \in DOMAIN vs : vs[j].deviceId = id => i <= j
    ELSE 0

\* A switchCamera that stays on the last camera.
switchCameraNoWrap(devs, currentId) ==
    LET vs == VideoDevicesOf(devs) IN
    IF Len(vs) < 2 THEN 0
    ELSE LET next == FindIndex(vs, currentId) + 1 IN
         vs[IF next > Len(vs) THEN Len(vs) ELSE next].deviceId

\* switchCamera: the id of the camera after the current one, or null (0).
switchCamera(devs, currentId) ==
    LET vs == VideoDevicesOf(devs) IN
    IF Len(vs) < 2 THEN 0
    ELSE vs[(FindIndex(vs, currentId) % Len(vs)) + 1].deviceId

\* The platform reports devicechange: the listener runs getDevices.
DeviceChange(devs) ==
    /\ devs # devices
    /\ devices' = devs
    /\ enumerations' = enumerations + 1
    /\ UNCHANGED videoDeviceId

\* handleSwitchCamera of the Studio.
handleSwitchCamera ==
    /\ LET nextDeviceId == switchCamera(devices, videoDeviceId) IN
       videoDeviceId' = IF nextDeviceId # 0 THEN nextDeviceId ELSE videoDeviceId
    /\ UNCHANGED <<devices, enumerations>>

\* The hook has mounted: its effect has enumerated the devices once.
DevIdle == devices = <<>> /\ videoDeviceId = 0 /\ enumerations = 1

DevInit == devices \in DeviceLists /\ videoDeviceId = 0 /\ enumerations = 1

\* ------------------------------------------------ the source picker

\* setDisplayMediaRequestHandler is called for a getDisplayMedia of the
\* renderer: getSources is pending, `selected` is false, the callback of the
\* request has not been invoked.
NewRequest ==
    [phase |-> "enumerating", sources |-> 0, selected |-> FALSE,
     clickPending |-> 0, closePending |-> FALSE, answers |-> <<>>]

\* callback(answer) of request q: null (0) or the picked source; answers lists
\* what it was invoked with.
callback(q, answer) == [q EXCEPT !.answers = Append(@, answer)]

DisplayMediaRequest ==
    requests' = Append(requests, NewRequest)

\* getSources resolved with n sources: none is answered with null, otherwise
\* the menu pops up.
GetSourcesResolved(i, n) ==
    /\ requests[i].phase = "enumerating"
    /\ requests' = [requests EXCEPT ![i] =
          IF n = 0 THEN [callback(@, 0) EXCEPT !.phase = "closed"]
          ELSE [@ EXCEPT !.phase = "menu", !.sources = n]]

\* getSources rejected: the catch answers with null.
GetSourcesRejected(i) ==
    /\ requests[i].phase = "enumerating"
    /\ requests' = [requests EXCEPT ![i] = [callback(@, 0) EXCEPT !.phase = "closed"]]

\* The user picks an item of the menu: the menu closes, and the platform
\* queues the click of the item and the callback of popup, in either order.
PickItem(i, item) ==
    /\ requests[i].phase = "menu"
    /\ item \in 1..requests[i].sources
    /\ requests' = [requests EXCEPT ![i].phase = "closed",
                                    ![i].clickPending = item,
                                    ![i].closePending = TRUE]

\* The user dismisses the menu without a pick.
DismissMenu(i) ==
    /\ requests[i].phase = "menu"
    /\ requests' = [requests EXCEPT ![i].phase = "closed", ![i].closePending = TRUE]

\* click of the picked item.
ItemClick(i) ==
    /\ requests[i].clickPending # 0
    /\ requests' = [requests EXCEPT ![i] =
          [callback(@, requests[i].clickPending) EXCEPT !.selected = TRUE,
                                                        !.clickPending = 0]]

\* The callback of menu.popup: the menu was closed.
PopupCallback(i) ==
    /\ requests[i].closePending
    /\ requests' = [requests EXCEPT ![i] =
          [(IF ~requests[i].selected THEN callback(@, 0) ELSE @)
              EXCEPT !.closePending = FALSE]]

PickInit == requests = <<>>

RecInit ==
    /\ build \in {"desktop", "browser"}
    /\ stream = 0
    /\ streamCount = 0
    /\ liveStreams = {}
    /\ isRecording = FALSE
    /\ isPaused = FALSE
    /\ recordingTime = 0
    /\ isContinuous = FALSE
    /\ recorders = <<>>
    /\ mediaRecorderRef = 0
    /\ chunksRef = <<>>
    /\ timers = {}
    /\ timerRef = 0
    /\ timerStart = 0
    /\ isLoopingRef = FALSE
    /\ startTimeRef = 0
    /\ startClosure = [stream |-> 0, recordingTime |-> 0]
    /\ listeners = IF build = "desktop"
                   THEN <<[isRecording |-> FALSE, stream |-> 0, recordingTime |-> 0]>>
                   ELSE <<>>
    /\ trayState = <<FALSE, FALSE>>
    /\ trayQueue = <<>>
    /\ saving = <<>>
    /\ saved = <<>>
    /\ now = 0
    /\ steps = 0

Init == RecInit /\ StreamIdle /\ CompInit /\ PickInit /\ DevIdle

InitStream == RecInit /\ StreamInit /\ CompInit /\ PickInit /\ DevIdle

InitComp == RecInit /\ build = "desktop" /\ StreamIdle /\ CompInit /\ PickInit /\ DevIdle

InitPick == InitComp

InitDev == RecInit /\ build = "desktop" /\ StreamIdle /\ CompInit /\ PickInit /\ DevInit

\* Every task counts against the length of the behaviour.
Step(A) ==
    /\ steps < MaxSteps
    /\ steps' = steps + 1
    /\ A
    /\ UNCHANGED <<streamVars, compVars, pickVars, devVars>>

\* The same for the behaviours of the compositor.
CompStep(A) ==
    /\ steps < MaxCompSteps
    /\ steps' = steps + 1
    /\ A
    /\ UNCHANGED <<build, stream, streamCount, liveStreams, isRecording, isPaused,
                   recordingTime, isContinuous, recorders, mediaRecorderRef, chunksRef,
                   timers, timerRef, timerStart, isLoopingRef, startTimeRef, startClosure,
                   listeners, trayState, trayQueue, saving, saved, now, streamVars,
                   pickVars, devVars>>

\* The same for the shutter in the behaviours of the compositor.
CompRecStep(A) ==
    /\ steps < MaxCompSteps
    /\ steps' = steps + 1
    /\ A
    /\ UNCHANGED <<build, stream, streamCount, liveStreams, isPaused,
                   recordingTime, isContinuous, chunksRef,
                   timers, timerRef, timerStart, isLoopingRef, startTimeRef, startClosure,
                   listeners, trayState, trayQueue, saving, saved, now, streamVars,
                   pickVars, devVars>>

\* The same for the behaviours of the stream hook, in which nothing is recorded.
StreamStep(A) ==
    /\ steps < MaxStreamSteps
    /\ steps' = steps + 1
    /\ A
    /\ UNCHANGED <<compVars, pickVars, devices, videoDeviceId>>
    /\ UNCHANGED <<build, stream, streamCount, liveStreams, isRecording, isPaused,
                   recordingTime, isContinuous, recorders, mediaRecorderRef, chunksRef,
                   timers, timerRef, timerStart, isLoopingRef, startTimeRef, startClosure,
                   listeners, trayState, trayQueue, saving, saved, now>>

\* The same for the behaviours of the source picker.
PickStep(A) ==
    /\ steps < MaxPickSteps
    /\ steps' = steps + 1
    /\ A
    /\ UNCHANGED <<build, stream, streamCount, liveStreams, isRecording, isPaused,
                   recordingTime, isContinuous, recorders, mediaRecorderRef, chunksRef,
                   timers, timerRef, timerStart, isLoopingRef, startTimeRef, startClosure,
                   listeners, trayState, trayQueue, saving, saved, now, streamVars,
                   compVars, devVars>>

\* The same for the behaviours of the device list.
DevStep(A) ==
    /\ steps < MaxDevSteps
    /\ steps' = steps + 1
    /\ A
    /\ UNCHANGED <<build, stream, streamCount, liveStreams, isRecording, isPaused,
                   recordingTime, isContinuous, recorders, mediaRecorderRef, chunksRef,
                   timers, timerRef, timerStart, isLoopingRef, startTimeRef, startClosure,
                   listeners, trayState, trayQueue, saving, saved, now, streamVars,
                   compVars, pickVars>>

\* The lengths of the tick steps: a second, or a whole segment.
TickLengths == {1, SegmentSeconds}

Next ==
    \/ \E fails \in BOOLEAN : Step(UiShutter(fails))
    \/ Step(UiPause)
    \/ \E fails \in BOOLEAN : Step(TrayRecord(fails))
    \/ Step(TrayPause)
    \/ \E channel \in {"toggle", "pause"}, fails \in BOOLEAN : Step(Shortcut(channel, fails))
    \/ Step(TrayDeliver)
    \/ \E d \in TickLengths : Step(Tick(d))
    \/ \E r \in DOMAIN recorders : Step(DataAvailable(r))
    \/ \E r \in DOMAIN recorders, flush \in BOOLEAN : Step(OnStop(r, flush))
    \/ \E i \in DOMAIN saving : Step(SaveDone(i))
    \/ \E i \in DOMAIN saving : Step(SaveFailed(i))
    \/ \E s \in 1..MaxSteps : Step(StreamAcquired(s))
    \/ \E dropped \in BOOLEAN : Step(StreamEnded(dropped))
    \/ \E r \in DOMAIN recorders, stops \in BOOLEAN : Step(EncoderError(r, stops))
    \/ Step(ToggleContinuous)
    \/ \E fails \in BOOLEAN : Step(AppShutter(fails))
    \/ \E d \in TickLengths : Step(AppTick(d))
    \/ \E r \in DOMAIN recorders, flush \in BOOLEAN : Step(AppOnStop(r, flush))
    \/ \E r \in DOMAIN recorders : Step(AppEncoderError(r))

Spec == Init /\ [][Next]_vars

NextStream ==
    \/ \E i \in DOMAIN calls, outcome \in {"ok", "okAudio", "overconstrained", "denied"} :
          StreamStep(Resolve(i, outcome))
    \/ \E m \in Modes : StreamStep(SwitchMode(m))
    \/ \E c \in Constraints : StreamStep(SetConstraints(c))
    \/ \E m \in Modes : StreamStep(EnterStudio(m))
    \/ StreamStep(BackToHome)
    \/ StreamStep(ClickStart)
    \/ \E t \in DOMAIN tracks : StreamStep(TrackEnded(t))
    \/ StreamStep(ReleaseStream)

SpecStream == InitStream /\ [][NextStream]_vars

NextComp ==
    \/ \E ok \in BOOLEAN : CompStep(RunEffect(ok))
    \/ \E id \in 1..MaxCompSteps : CompStep(Frame(id))
    \/ \E withAudio \in BOOLEAN : CompStep(MainAcquired(withAudio))
    \/ CompStep(MainEnded)
    \/ \E i \in DOMAIN pipCalls : CompStep(PipGranted(i))
    \/ \E i \in DOMAIN pipCalls : CompStep(PipDenied(i))
    \/ CompStep(CompSwitchMode)
    \/ CompRecStep(CompShutter)

SpecComp == InitComp /\ [][NextComp]_vars

NextPick ==
    \/ PickStep(DisplayMediaRequest)
    \/ \E i \in DOMAIN requests, n \in 0..MaxSources : PickStep(GetSourcesResolved(i, n))
    \/ \E i \in DOMAIN requests : PickStep(GetSourcesRejected(i))
    \/ \E i \in DOMAIN requests, item \in 1..MaxSources : PickStep(PickItem(i, item))
    \/ \E i \in DOMAIN requests : PickStep(DismissMenu(i))
    \/ \E i \in DOMAIN requests : PickStep(ItemClick(i))
    \/ \E i \in DOMAIN requests : PickStep(PopupCallback(i))

SpecPick == InitPick /\ [][NextPick]_vars

NextDev ==
    \/ \E devs \in DeviceLists : DevStep(DeviceChange(devs))
    \/ DevStep(handleSwitchCamera)

SpecDev == InitDev /\ [][NextDev]_vars

\* ------------------------------------------------------------- the session

\* The state of the recording session as the component reports it.
SessionState ==
    IF ~isRecording THEN "idle" ELSE IF isPaused THEN "paused" ELSE "recording"

\* The encoders that are recording or paused.
ActiveEncoders == {r \in DOMAIN recorders : recorders[r].state # "inactive"}

\* C1: at most one recording is active at any time: there is never more than
\* one encoder in a non-inactive state and never more than one elapsed-time
\* timer scheduled.
C1_AtMostOneRecordingActive ==
    /\ Cardinality(ActiveEncoders) <= 1
    /\ Cardinality(timers) <= 1

\* Some encoder is paused or resumed by the step.
PauseFlipped ==
    \E r \in DOMAIN recorders :
        /\ recorders[r].state \in {"recording", "paused"}
        /\ recorders'[r].state \in {"recording", "paused"}
        /\ recorders'[r].state # recorders[r].state

\* C2: the session moves only along the edges idle -> recording, recording <->
\* paused and recording/paused -> idle; no step starts an encoder unless the
\* session is idle, and no step pauses or resumes one while it is idle.
C2_OnlyLegalEdges ==
    [][/\ SessionState' # SessionState =>
             <<SessionState, SessionState'>> \in
                 {<<"idle", "recording">>, <<"recording", "paused">>,
                  <<"paused", "recording">>, <<"recording", "idle">>, <<"paused", "idle">>}
       /\ SessionState # "idle" => Len(recorders') = Len(recorders)
       /\ SessionState = "idle" => ~PauseFlipped]_vars

\* C5: the duration stored in every recorded file is the wall-clock time of its
\* recording less the time spent paused, within one second.
C5_DurationIsWallClock ==
    \A i \in DOMAIN saved : saved[i].duration - saved[i].elapsed \in -1..1

\* The files that encoder r has produced, saved or being saved.
FilesOf(r) ==
    [i \in {j \in DOMAIN saved : saved[j].rec = r} |-> saved[i].duration]

PendingFilesOf(r) == {i \in DOMAIN saving : saving[i].rec = r}

\* Encoder r records a session that has run in continuous mode, unpaused, for
\* at least lo and less than hi seconds.
ContinuousFor(r, lo, hi) ==
    /\ r = mediaRecorderRef
    /\ recorders[r].state = "recording"
    /\ recorders[r].continuous
    /\ recorders[r].pausedFor = 0
    /\ now - recorders[r].sessionStart >= lo
    /\ now - recorders[r].sessionStart < hi

\* C6: a continuous-mode session that has run for 2400 seconds has produced
\* exactly two files of 1200 seconds each, its counter restarted at zero at
\* each boundary, and it is reported as recording.
C6_ContinuousSplitsEverySegment ==
    \A r \in DOMAIN recorders :
        ContinuousFor(r, 2 * SegmentSeconds, 3 * SegmentSeconds) =>
            /\ isRecording
            /\ Cardinality(DOMAIN FilesOf(r)) + Cardinality(PendingFilesOf(r)) = 2
            /\ \A i \in DOMAIN FilesOf(r) : FilesOf(r)[i] = SegmentSeconds
            /\ recordingTime = now - recorders[r].sessionStart - 2 * SegmentSeconds

\* C7: an encoder that reported an error is stopped at once; when its stop
\* event has been handled, what it buffered is finalized and the session it
\* belongs to is idle.
C7_EncoderErrorForcesStop ==
    \A r \in DOMAIN recorders :
        recorders[r].errored =>
            /\ recorders[r].state = "inactive"
            /\ ~recorders[r].stopPending =>
                  /\ recorders[r].finalized
                  /\ r = mediaRecorderRef => ~isRecording

\* -------------------------------------------------------- the stream hook

LiveTracks(ts) == {t \in DOMAIN ts : ts[t].live}

\* The acquisitions that have a live track.
LiveAcquisitions == {tracks[t].acq : t \in LiveTracks(tracks)}

\* C3: there is no state in which two streams acquired by the hook both have
\* live tracks.
C3_NoTwoLiveStreams == Cardinality(LiveAcquisitions) <= 1

\* Call k was started for a mode or for constraints that are no longer the
\* desired ones.
Stale(k) == k.mode # mode \/ k.constraints # constraints

\* C4: no step makes the result of a stale acquisition the current stream.
C4_StaleResultDiscarded ==
    [][\A i \in DOMAIN calls :
          Stale(calls[i]) =>
              ~(/\ curStream' # 0
                /\ curStream' # curStream
                /\ streams'[curStream'].acq = calls[i].id)]_vars

\* An acquisition succeeded and every live track is one it was granted.
JustAcquired ==
    /\ curStream # 0
    /\ LiveTracks(tracks) # {}
    /\ \A t \in LiveTracks(tracks) : tracks[t].acq = streams[curStream].acq

\* C10: in every mode and for all constraints, a release that follows a
\* successful acquisition leaves no live track, the microphone tracks mixed
\* into a screen stream included.
C10_ReleaseLeavesNoLiveTrack ==
    JustAcquired => LiveTracks(release(Dsm).tracks) = {}

\* A screen capture with the microphone mixed in was acquired and released.
C10_Witness ==
    /\ curStream = 0
    /\ LiveTracks(tracks) = {}
    /\ \E t1, t2 \in DOMAIN tracks :
          /\ tracks[t1].kind = "mic"
          /\ tracks[t2].kind = "display"
          /\ tracks[t1].acq = tracks[t2].acq

\* -------------------------------------------------------- the compositor

\* C8: when the canvas gives no 2D context, no composite stream is exposed and
\* the stream recorded in screen mode is the raw main stream.
C8_NoContextNoComposite ==
    (~EffectPending /\ screenMode /\ mainStream # 0 /\ ~ctx) =>
        /\ compositedStream = NoComposite
        /\ ~RecordsComposite

\* C9: a step in which the cleanup of the compositor runs cancels every
\* animation frame request that was scheduled and changes the live or stopped
\* status of no track of the source streams.
C9_CleanupCancelsLoopOnly ==
    [][(effectDeps' # effectDeps /\ HadCleanup) =>
          /\ pendingFrames' \cap pendingFrames = {}
          /\ sources' = sources]_vars

\* The render loop ran, the cleanup has cancelled it when screen mode was left,
\* and a source stream is still live.
C9_Witness ==
    /\ rafCount > 0
    /\ pendingFrames = {}
    /\ ~EffectPending
    /\ ~screenMode
    /\ \E s \in DOMAIN sources : sources[s].live

\* C11: release is idempotent: a stopStream that follows a stopStream, or that
\* finds no stream in the ref, changes no state and calls stop on no track.
C11_ReleaseIdempotent ==
    build = "desktop" =>
        /\ TracksOf(stopStream(Dsm), stopStream(Dsm).streamRef) = {}
        /\ stopStream(stopStream(Dsm)) = stopStream(Dsm)
        /\ streamRef = 0 => stopStream(Dsm) = Dsm

\* A mode switch released a live stream in the cleanup of the effect and called
\* stopStream once more at the head of startStream.
C11_Witness ==
    /\ build = "desktop"
    /\ streamRef = 0
    /\ callCount >= 2
    /\ tracks # <<>>
    /\ LiveTracks(tracks) = {}
    /\ \E i \in DOMAIN calls : calls[i].id = callCount

\* C12: one acquire in video or audio mode issues at most two platform requests:
\* the call awaits a second request only after its first request failed as
\* overconstrained; any other failure of the first request, and any failure of
\* the second, ends the call in the catch with no further request.
C12_AtMostOneRetry ==
    [][\A i \in DOMAIN calls : \A o \in Outcomes(calls[i]) :
          (calls[i].mode \in {"video", "audio"} /\ Resolve(i, o)) =>
              LET k == calls[i]
                  pending == \E j \in DOMAIN calls' : calls'[j].id = k.id
                  second == k.phase = "first" /\ o = "overconstrained"
              IN /\ k.phase \in {"first", "retry"}
                 /\ pending => second
                 /\ pending => \A j \in DOMAIN calls' :
                                   calls'[j].id = k.id => calls'[j].phase = "retry"
                 /\ (o \notin {"ok", "okAudio"} /\ ~second) =>
                        /\ ~pending
                        /\ streams' = streams
                        /\ isActive => error' /\ ~permissionGranted']_vars

\* The first request of a call failed as overconstrained and the call awaits
\* its second request.
C12_Witness ==
    /\ build = "desktop"
    /\ \E i \in DOMAIN calls : calls[i].phase = "retry" /\ calls[i].mode \in {"video", "audio"}

\* C13: the fallback request made after an overconstrained failure keeps the
\* device selection of the first request and drops only the resolution.
C13_FallbackKeepsDevices ==
    \A i \in DOMAIN calls :
        (build = "desktop" /\ calls[i].phase = "retry") =>
            /\ Request(calls[i]).deviceId = Request([calls[i] EXCEPT !.phase = "first"]).deviceId
            /\ ~Request(calls[i]).size

\* C14: entering screen mode, or changing the constraints or the activity in
\* screen mode, starts no display capture: every step that starts a call in
\* screen mode is the click on a button that calls startStream.
C14_ScreenCaptureOnlyOnTrigger ==
    [][(callCount' > callCount /\ calls'[Len(calls')].mode = "screen") =>
          /\ ClickStart
          /\ mode = "screen"
          /\ calls' = Append(calls, calls'[Len(calls')])]_vars

\* Screen mode was entered from another mode and the constraints were changed
\* in it; no call is pending and no stream is held.
C14_Witness ==
    /\ isActive
    /\ mode = "screen"
    /\ constraints = "exact"
    /\ callCount >= 1
    /\ calls = <<>>
    /\ curStream = 0

\* C15: when the video track of the current stream ends, that stream becomes
\* released (the hook holds no current stream and every track of the stream is
\* stopped) and the event starts no acquisition.
C15_EndedStreamReleased ==
    [][\A t \in DOMAIN tracks :
          (curStream # 0 /\ t \in streams[curStream].tracks /\ TrackEnded(t)) =>
              /\ curStream' = 0
              /\ \A u \in streams[curStream].tracks : ~tracks'[u].live
              /\ callCount' = callCount]_vars

\* C16: when the video track of the current stream ends, the error state of
\* the hook becomes non-empty.
C16_EndedStreamSurfacesError ==
    [][\A t \in DOMAIN tracks :
          (build = "desktop" /\ curStream # 0 /\ t \in streams[curStream].tracks
             /\ TrackEnded(t)) => error']_vars

C18_PausedCounterFrozen ==
    [][(build = "desktop" /\ SessionState = "paused" /\ \E d \in TickLengths : Tick(d)) =>
          recordingTime' = recordingTime]_vars

\* C19: a start on an idle session whose encoder cannot be constructed fails
\* and leaves the session idle: isRecording and isPaused are false, no timer
\* is started, no encoder exists that was not there before and no file is
\* produced or queued for saving.
C19_FailedStartLeavesIdle ==
    [][(/\ ~isRecording
        /\ stream \in liveStreams
        /\ \/ UiShutter(TRUE)
           \/ TrayRecord(TRUE)
           \/ Shortcut("toggle", TRUE)
           \/ AppShutter(TRUE)) =>
          /\ ~isRecording'
          /\ ~isPaused'
          /\ timers' \subseteq timers
          /\ Len(recorders') = Len(recorders)
          /\ saved' = saved
          /\ saving' = saving]_vars

\* After an earlier session, the session is idle on a live stream and the
\* platform refuses the encoder: the start of the shutter and of the shortcut
\* end in the exception of the constructor.
C19_Witness ==
    /\ build = "desktop"
    /\ ~isRecording
    /\ stream \in liveStreams
    /\ Len(recorders) >= 1
    /\ handleStartRecording(Hook, TRUE).threw
    /\ Dispatch("toggle", TRUE).threw

\* C20: stop issued while the session is idle is a no-op: the stop handler of
\* either build, and the stop command of the tray run by every registered
\* listener, raise no error and leave isRecording, isPaused, the elapsed
\* counter, the encoders, the timers and the saved files as they are.
C20_StopWhileIdleIsNoOp ==
    ~isRecording =>
        IF build = "desktop"
        THEN stopRecording(Hook) = Hook /\ Dispatch("stop", FALSE) = Hook
        ELSE AppHandleStopRecording(Hook) = Hook

\* After a session that counted some seconds the session is idle again, while
\* the tray still shows a recording, so that its item sends stop-recording.
C20_Witness ==
    /\ build = "desktop"
    /\ ~isRecording
    /\ recordingTime > 0
    /\ Len(recorders) >= 1
    /\ trayState[1]
    /\ TrayChannel = "stop"

\* C21: a RecordedFile is created only by a finalization and each finalization
\* creates at most one: a step that adds to the saved files adds one file, in
\* the desktop build by taking one finalized blob out of the save queue and in
\* the browser build by handling one pending stop event, and a step that adds
\* to the save queue adds one blob by handling one pending stop event.
C21_OneFilePerFinalization ==
    [][/\ Len(saved') >= Len(saved)
       /\ (Len(saved') > Len(saved) /\ build = "desktop") =>
              \E i \in DOMAIN saving :
                  /\ saved' = <<saving[i]>> \o saved
                  /\ saving' = RemoveAt(saving, i)
       /\ (Len(saved') > Len(saved) /\ build = "browser") =>
              \E r \in DOMAIN recorders :
                  /\ recorders[r].stopPending
                  /\ ~recorders'[r].stopPending
                  /\ Len(saved') = Len(saved) + 1
                  /\ Tail(saved') = saved
                  /\ saved'[1].rec = r
       /\ Len(saving') > Len(saving) =>
              \E r \in DOMAIN recorders :
                  /\ recorders[r].stopPending
                  /\ ~recorders'[r].stopPending
                  /\ Len(saving') = Len(saving) + 1
                  /\ SubSeq(saving', 1, Len(saving)) = saving
                  /\ saving'[Len(saving')].rec = r]_vars

\* One file was saved and the blob of a second finalization is still queued.
C21_Witness ==
    /\ build = "desktop"
    /\ Len(saved) = 1
    /\ Len(saving) = 1
    /\ Cardinality({r \in DOMAIN recorders : recorders[r].finalized}) >= 2

\* C22: when the save of a finalized recording fails, the chunks of that
\* recording are still held: each of them is still in the chunk buffer.
C22_FailedSaveKeepsChunks ==
    [][\A i \in DOMAIN saving :
          SaveFailed(i) =>
              \A n \in DOMAIN saving[i].chunks :
                  \E m \in DOMAIN chunksRef' : chunksRef'[m] = saving[i].chunks[n]]_vars

Settled(q) == q.phase = "closed" /\ q.clickPending = 0 /\ ~q.closePending

\* C24: every display-capture request is answered exactly once, whatever the
\* order of the click of the item and the callback of popup: the callback of
\* a request is never invoked a second time, and has been invoked once when
\* the request has no event left to handle.
C24_AnsweredExactlyOnce ==
    \A i \in DOMAIN requests :
        /\ Len(requests[i].answers) <= 1
        /\ Settled(requests[i]) => Len(requests[i].answers) = 1

\* C25: the composite output has one video track, that of the canvas the
\* effect made last, and its audio tracks are those of the primary stream when
\* there is no secondary stream and as many as the primary and the secondary
\* stream have together when both are present.
C25_CompositeTracks ==
    (~EffectPending /\ compositedStream # NoComposite) =>
        /\ compositedStream.canvas = canvasCount
        /\ canvasCount > 0
        /\ pipStream = 0 => compositedStream.audio = WithAudio(Comp, {mainStream})
        /\ pipStream # 0 =>
               Cardinality(compositedStream.audio)
                   = Cardinality(WithAudio(Comp, {mainStream}))
                       + Cardinality(WithAudio(Comp, {pipStream}))

\* A display capture with an audio track is composited with the camera of the
\* picture-in-picture.
C25_Witness ==
    /\ ~EffectPending
    /\ mainStream # 0
    /\ pipStream # 0
    /\ compositedStream # NoComposite
    /\ compositedStream.audio = {mainStream}

\* C26: the stream given to the recording session is the output of the
\* compositor exactly when the mode is screen and a composite stream exists,
\* and the raw stream of the device hook in every other case.
C26_RecordingStreamChoice ==
    /\ recordingStream.kind = "composite" <=> (screenMode /\ compositedStream # NoComposite)
    /\ recordingStream.kind = "composite" => recordingStream.id = compositedStream.canvas
    /\ recordingStream.kind # "composite" =>
           recordingStream = [kind |-> "raw", id |-> mainStream]

\* Screen mode has been left while the composite of the screen capture is
\* still in the state: the raw stream is the one to record.
C26_Witness ==
    /\ ~screenMode
    /\ compositedStream # NoComposite
    /\ recordingStream.kind = "raw"

\* The ids switchCamera returns in n calls in a row, each from the id the
\* call before it returned.
RECURSIVE Visits(_, _, _)
Visits(devs, id, n) ==
    IF n = 0 THEN <<>>
    ELSE LET next == switchCamera(devs, id) IN <<next>> \o Visits(devs, next, n - 1)

\* C27: with N >= 2 cameras enumerated and the current id among them, N calls
\* of switchCamera in a row end on the current id and return every camera
\* once; with fewer than two cameras switchCamera returns nothing.
C27_SwitchCameraCycles ==
    LET vs == VideoDevicesOf(devices)
        N == Len(vs)
        ids == {vs[i].deviceId : i \in DOMAIN vs}
        w == Visits(devices, videoDeviceId, N)
    IN /\ N < 2 => switchCamera(devices, videoDeviceId) = 0
       /\ (N >= 2 /\ videoDeviceId \in ids) =>
              /\ w[N] = videoDeviceId
              /\ {w[i] : i \in 1..N} = ids
              /\ \A i, j \in 1..N : w[i] = w[j] => i = j

\* Three cameras are enumerated and handleSwitchCamera has gone from the
\* first to the last of them.
C27_Witness ==
    LET vs == VideoDevicesOf(devices) IN
    /\ Len(vs) >= 3
    /\ videoDeviceId = vs[Len(vs)].deviceId
    /\ steps >= 3

\* C28: every successful acquire is followed by an enumeration of the devices:
\* the task in which a call of startStream ends with a granted stream calls
\* enumerateDevices.
C28_AcquireRefreshesDevices ==
    [][\A i \in DOMAIN calls : \A o \in {"ok", "okAudio"} :
          (/\ o \in Outcomes(calls[i])
           /\ Resolve(i, o)
           /\ \A j \in DOMAIN calls' : calls'[j].id # calls[i].id) =>
              enumerations' > enumerations]_vars

\* The source streams the render loop reads: those the effect last ran with.
LoopSources == {effectDeps[1], effectDeps[2]} \ {0}

\* C29: the render loop never draws from a source stream whose tracks have
\* been stopped: whenever an animation frame fires and draw runs with a
\* context, the streams it reads are live.
C29_NoDrawFromStoppedSource ==
    [][\A id \in pendingFrames :
          (Frame(id) /\ ctx) => \A s \in LoopSources : sources[s].live]_vars

\* The finalized recordings: those being saved and those saved.
Finalized == {saving[i] : i \in DOMAIN saving} \cup {saved[i] : i \in DOMAIN saved}

\* C30: the binary object finalized for a session consists of exactly the
\* chunks the session's encoder emitted, in the order of their emission, and
\* of no chunk of another session's encoder.
C30_BlobIsSessionsChunks ==
    build = "desktop" =>
        \A e \in Finalized :
            e.chunks = [k \in 1..recorders[e.rec].emitted |-> <<e.rec, k>>]


\* C31: once the effect has run for the current arguments, a composite stream
\* is exposed only in screen mode with a primary stream held; at most one
\* animation frame request is scheduled at any time; and a run of the effect
\* for a changed mode, primary or picture-in-picture stream leaves none of the
\* requests of the loop before it scheduled.
C31_OneLoopWhileScreenActive ==
    [][/\ (~EffectPending' /\ compositedStream' # NoComposite) =>
              screenMode' /\ mainStream' # 0
       /\ Cardinality(pendingFrames') <= 1
       /\ effectDeps' # effectDeps => pendingFrames' \cap pendingFrames = {}]_vars

\* The loop of a screen capture ran, the camera of the picture-in-picture
\* arrived, and the effect has replaced the loop by one on a second canvas.
C31_Witness ==
    /\ ~EffectPending
    /\ screenMode
    /\ mainStream # 0
    /\ pipStream # 0
    /\ compositedStream # NoComposite
    /\ canvasCount >= 2
    /\ rafCount >= 3
    /\ Cardinality(pendingFrames) = 1


\* C32: one toggle message of the tray or of a shortcut invokes the command
\* once, against the current state: received while recording it leaves the
\* session idle with the encoder stopped and no encoder created, received
\* while idle with a live stream it leaves the session recording with one
\* encoder created.
C32_OneTriggerOneCommand ==
    [][(build = "desktop" /\ Shortcut("toggle", FALSE)) =>
          /\ isRecording =>
                 /\ ~isRecording'
                 /\ Len(recorders') = Len(recorders)
                 /\ ActiveEncoders' = {}
          /\ (~isRecording /\ stream \in liveStreams) =>
                 /\ isRecording'
                 /\ Len(recorders') = Len(recorders) + 1]_vars


\* The encoder in the ref is recording or paused.
EncoderActive == mediaRecorderRef # 0 /\ recorders[mediaRecorderRef].state # "inactive"

\* C33: when no stop event is waiting to be handled, the reported state
\* agrees with the current encoder: isRecording holds exactly when the encoder
\* is recording or paused and isPaused exactly when it is paused, also after
\* the encoder stopped by itself because the tracks of its stream ended.
C33_StateAgreesWithEncoder ==
    NoStopPending =>
        /\ isRecording <=> EncoderActive
        /\ isPaused <=> (EncoderActive /\ recorders[mediaRecorderRef].state = "paused")


\* The render loop that paints canvas k is scheduled.
LoopRuns(k) == canvasCount = k /\ pendingFrames # {}

\* C34: while the session records a composite stream, the render loop that
\* paints the canvas of that stream keeps running: no step taken while the
\* encoder records it, the arrival of the picture-in-picture camera included,
\* leaves that loop cancelled.
C34_RecordedLoopKeepsRunning ==
    [][\A r \in DOMAIN recorders :
          (/\ recorders[r].state = "recording"
           /\ recorders'[r].state = "recording"
           /\ recorders[r].stream.kind = "composite"
           /\ LoopRuns(recorders[r].stream.id)) =>
              LoopRuns(recorders[r].stream.id)']_vars


\* What onstop of App.tsx makes of the session when it handles the stop event
\* of the encoder in the ref.
AfterStopEvent(flush) == AppOnStopHandler(Hook, mediaRecorderRef, flush)

\* C35: a user stop ends the recording, however it is interleaved with the
\* tick of continuous mode and the stop event of the encoder: after the stop
\* of the shutter the stop event of the encoder is the one to handle, and
\* handling it leaves the session idle, with the encoder inactive and no timer
\* scheduled, and starts no new segment.
C35_UserStopEndsRecording ==
    [][(build = "browser" /\ isRecording /\ AppShutter(FALSE)) =>
          /\ recorders'[mediaRecorderRef'].stopPending
          /\ \A flush \in BOOLEAN :
                 /\ ~AfterStopEvent(flush)'.isRecording
                 /\ AfterStopEvent(flush)'.recorders[mediaRecorderRef'].state = "inactive"
                 /\ AfterStopEvent(flush)'.timers = {}]_vars


\* C36: when the Studio is left, so that the stream hook is unmounted, no
\* track of a stream the hook acquired remains live, in every mode, screen
\* mode included.
C36_UnmountLeavesNoLiveTrack ==
    [][(build = "desktop" /\ BackToHome) => LiveTracks(tracks') = {}]_vars


\* The camera streams the picture-in-picture effect was granted.
PipSources == {s \in DOMAIN sources : sources[s].pip}

\* C37: every camera stream acquired for the picture-in-picture is the current
\* pipStream or has all its tracks stopped, also when its acquisition resolved
\* after the mode had left screen; and outside screen mode no track of such a
\* stream is live.
C37_NoPipCameraLeftLive ==
    \A s \in PipSources :
        /\ sources[s].live => s = pipStream
        /\ ~screenMode => ~sources[s].live


\* C38: when no acquisition is pending, permissionGranted holds exactly when
\* the hook holds a current stream, and an error is reported only when it
\* holds none, however the acquisitions that overlapped succeeded or failed.
C38_PermissionMatchesStream ==
    (build = "desktop" /\ calls = <<>>) =>
        /\ permissionGranted <=> curStream # 0
        /\ error => curStream = 0


\* C39: in continuous mode the duration stored for a finalized segment, the
\* last segment that a user stop ends after a split included, is the elapsed
\* counter of that segment at the moment it is finalized, within the second
\* the rounding takes.
C39_SegmentDurationIsCounter ==
    [][\A r \in DOMAIN recorders : \A flush \in BOOLEAN :
          (build = "browser" /\ isContinuous /\ AppOnStop(r, flush)) =>
              saved'[1].duration - recordingTime \in -1..1]_vars


====
